---------------------------- MODULE Spec2Model ----------------------------
(***************************************************************************)
(* A state-machine model of client_examples/ax206vncclient.c: the AX206    *)
(* picture-frame driver (dpf_ax_open, wrap_scsi, dpf_ax_screen_blit,       *)
(* drv_set_pixel) and the VNC update callback that drives it.              *)
(*                                                                         *)
(* The program is single threaded; pc is the position of that one thread.  *)
(* Every libusb call is one step whose outcome the environment chooses.    *)
(* Byte buffers that the program zero-fills (lcdBuf, the frame buffer) are *)
(* kept as finite maps from offset to non-zero byte: an offset outside the *)
(* map holds 0.  Strings are tuples of ASCII codes.                        *)
(***************************************************************************)
EXTENDS Integers, Sequences, FiniteSets, TLC

(***************************************************************************)
(* Program constants                                                       *)
(***************************************************************************)
DPF_BPP == 2
AX206_VID == 6408
AX206_PID == 258
USBCMD_BLIT == 18
DIR_IN == 0
DIR_OUT == 1
ENDPT_OUT == 1
ENDPT_IN == 129
PWidth == 480
PHeight == 320
AnsLen == 13
MaxTries == 5
GBufLen == 31
CmdLen == 16
ParamLen == 5

(***************************************************************************)
(* Bounds of the model                                                     *)
(***************************************************************************)
MaxUpdates == 2
MaxBus == 3
MaxSetPixel == 2

(***************************************************************************)
(* C arithmetic and byte-buffer helpers                                    *)
(***************************************************************************)
\* (unsigned char) v
Byte(v) == v % 256

\* v >> n for a non-negative v
Shr(v, n) == v \div (2 ^ n)

\* (short) v on a 16-bit two's complement short
ToShort(v) == ((v + 32768) % 65536) - 32768

\* v >> 8 of a short promoted to int (arithmetic shift), then (unsigned char)
HiByte(v) == Byte((v - (v % 256)) \div 256)

\* the remainder of the division rounded down, never negative
CMod_Floored(a, b) == a % b

\* C's % : the remainder of the division truncated towards zero
CMod(a, b) == IF a >= 0 THEN a % b ELSE -((-a) % b)

NoBytes == [k \in {} |-> 0]

At(buf, i) == IF i \in DOMAIN buf THEN buf[i] ELSE 0

Put(buf, i, b) ==
    IF b = 0
    THEN [k \in (DOMAIN buf) \ {i} |-> buf[k]]
    ELSE [k \in (DOMAIN buf) \cup {i} |-> IF k = i THEN b ELSE buf[k]]

\* The character of a NUL-terminated string / byte array at 1-based index k
CharAt(s, k) == IF k <= Len(s) THEN s[k] ELSE 0

RECURSIVE StrncmpFrom(_, _, _, _)
StrncmpFrom(a, b, n, k) ==
    IF k > n THEN 0
    ELSE IF CharAt(a, k) # CharAt(b, k) THEN CharAt(a, k) - CharAt(b, k)
    ELSE IF CharAt(a, k) = 0 THEN 0
    ELSE StrncmpFrom(a, b, n, k + 1)

strncmp(a, b, n) == StrncmpFrom(a, b, n, 1)

strlen(s) == Len(s)

Str_usb == <<117, 115, 98>>
Str_dpf == <<100, 112, 102>>
Str_USBS == <<85, 83, 66, 83>>
Ch0 == <<48>>

(***************************************************************************)
(* Pixel conversion                                                        *)
(***************************************************************************)
\* p.R & 0xf8, (p.G & 0xe0) >> 5: one cannot carry into the other
RGB565_0(p) == ((p.R \div 8) * 8) + (p.G \div 32)

\* (p.G & 0x1c) << 3, (p.B & 0xf8) >> 3
RGB565_1(p) == (((p.G \div 4) % 8) * 32) + (p.B \div 8)

(***************************************************************************)
(* Environment: what the command line, the USB bus and the device can do   *)
(***************************************************************************)
\* argv[1]: a C string, or no string at all
NullSel == [null |-> TRUE, s |-> <<>>]
Sel(chars) == [null |-> FALSE, s |-> chars]

SelPrefixes == {Str_usb, Str_dpf, <<117, 115, 99>>, <<85, 115, 98>>}
SelLast == {47, 48, 49, 57, 58, 97}
Selectors ==
    {NullSel}
    \cup {Sel(p \o <<c>>) : p \in SelPrefixes, c \in SelLast}
    \cup {Sel(<<>>), Sel(Str_usb), Sel(Str_usb \o <<49, 48>>), Sel(<<48>> \o Str_usb)}

\* A device on the bus, by its descriptor
AxDev == [idVendor |-> AX206_VID, idProduct |-> AX206_PID]
OtherDevs == {[idVendor |-> AX206_VID, idProduct |-> 259],
              [idVendor |-> 7531, idProduct |-> AX206_PID]}
RECURSIVE SeqsUpTo(_, _)
SeqsUpTo(S, n) ==
    IF n = 0 THEN {<<>>}
    ELSE LET shorter == SeqsUpTo(S, n - 1)
         IN  shorter \cup {Append(q, e) : q \in {t \in shorter : Len(t) = n - 1}, e \in S}
Buses == SeqsUpTo({AxDev} \cup OtherDevs, MaxBus)

\* libusb error codes a call may report: LIBUSB_ERROR_IO, LIBUSB_ERROR_TIMEOUT
UsbErrors == {-1, -7}

(***************************************************************************)
(* State                                                                   *)
(***************************************************************************)
VARIABLES
    pc,           \* position of the program's one thread
    \* dpf_ax_open: parameter, locals, and the resources it acquires
    dev, index, devs, i, enumeration, d,
    usbInit,      \* libusb_init done and libusb_exit not
    devList,      \* "none", "held", "freed": the list libusb_get_device_list gave
    udev,         \* "none", "open", "closed": the libusb device handle
    claimed,      \* interface 0 is claimed
    ctxMem,       \* "none", "alloc", "freed": the malloc'ed DPFContext
    ctx,          \* DPFContext.width, .height
    openErr,      \* which return of dpf_ax_open was taken
    buf,          \* static buf[5] of dpf_ax_open
    \* wrap_scsi: arguments, statics and locals
    call, g_buf, ansbuf, ret, transfered, retry, timeout,
    result,       \* wrap_scsi's return value
    exitAt,       \* which return statement of wrap_scsi produced it
    xfers,        \* the bulk transfers of the current wrap_scsi call, in order
    \* the dpf struct, DCOLS/DROWS and the blit command
    lcdBuf, xferBuf, pwidth, pheight, minx, maxx, miny, maxy, DCOLS, DROWS, g_excmd,
    \* update: the client's frame buffer, the arguments and the loop variables
    frameBuffer, ux, uy, uw, uh, lx, ly, rect,
    \* observation of the current update notification
    nUpdates, blits, flushRect, blitRet, called, changed, lastSet,
    \* the device: what the panel shows, and whether a blit has failed so far
    panel, blitFailed,
    \* the calls of drv_set_pixel made from outside update
    nSetPixel

openVars == <<dev, index, devs, i, enumeration, d, usbInit, devList, udev, claimed,
              ctxMem, ctx, openErr, buf>>
scsiVars == <<call, g_buf, ansbuf, ret, transfered, retry, timeout, result, exitAt, xfers>>
dpfVars  == <<lcdBuf, xferBuf, pwidth, pheight, minx, maxx, miny, maxy, DCOLS, DROWS, g_excmd>>
updVars  == <<frameBuffer, ux, uy, uw, uh, lx, ly, rect>>
obsVars  == <<nUpdates, blits, flushRect, blitRet, called, changed, lastSet>>
devVars  == <<panel, blitFailed>>
vars == <<pc, openVars, scsiVars, dpfVars, updVars, obsVars, devVars, nSetPixel>>

Zeros(n) == [k \in 1..n |-> 0]

\* static unsigned char g_buf[]: the envelope as the program image holds it
GBufInit == <<85, 83, 66, 67, 222, 173, 190, 239, 0, 128, 0, 0, 0, 0, 16,
              205, 0, 0, 0, 0, 6, 17, 248, 112, 0, 64, 0, 0, 0, 0, 0>>

\* static unsigned char g_excmd[16]
ExCmdInit == <<205, 0, 0, 0, 0, 6, 0, 0, 0, 0, 0, 0, 0, 0, 0, 0>>

\* static unsigned char cmd[16] of dpf_ax_open, after cmd[5] = 2
OpenCmd == <<205, 0, 0, 0, 0, 2, 0, 0, 0, 0, 0, 0, 0, 0, 0, 0>>

NoCall == [caller |-> "none", cmd |-> <<>>, cmdlen |-> 0, out |-> DIR_IN,
           data |-> FALSE, block_len |-> 0]
NoRect == <<>>
NoValue == [given |-> FALSE, value |-> 0]

\* The panel before the first blit: w x h pixels, none of them known.  "px"
\* holds the bytes of the pixels that were blitted, at the offsets lcdBuf has
\* for them; once the whole panel has been drawn, "px" holds the non-zero
\* bytes only, as lcdBuf does.
PanelInit == [w |-> 0, h |-> 0, drawn |-> FALSE, px |-> NoBytes]

Init ==
    /\ pc = "main"
    /\ dev \in Selectors
    /\ index = -1 /\ devs = <<>> /\ i = 0 /\ enumeration = 0 /\ d = 0
    /\ usbInit = FALSE /\ devList = "none" /\ udev = "none" /\ claimed = FALSE
    /\ ctxMem = "none" /\ ctx = [width |-> 0, height |-> 0] /\ openErr = "none"
    /\ buf = Zeros(ParamLen)
    /\ call = NoCall /\ g_buf = GBufInit /\ ansbuf = Zeros(AnsLen)
    /\ ret = 0 /\ transfered = 0 /\ retry = 0 /\ timeout = 0
    /\ result = 0 /\ exitAt = "none" /\ xfers = <<>>
    /\ lcdBuf = NoBytes /\ xferBuf = NoBytes /\ pwidth = 0 /\ pheight = 0
    /\ minx = 0 /\ maxx = 0 /\ miny = 0 /\ maxy = 0 /\ DCOLS = 0 /\ DROWS = 0
    /\ g_excmd = ExCmdInit
    /\ frameBuffer = NoBytes /\ ux = 0 /\ uy = 0 /\ uw = 0 /\ uh = 0 /\ lx = 0 /\ ly = 0
    /\ rect = <<0, 0, 0, 0>>
    /\ nUpdates = 0 /\ blits = <<>> /\ flushRect = NoRect /\ blitRet = NoValue
    /\ called = {} /\ changed = {} /\ lastSet = <<>>
    /\ panel = PanelInit /\ blitFailed = FALSE
    /\ nSetPixel = 0

(***************************************************************************)
(* dpf_ax_open                                                             *)
(***************************************************************************)
\* lines 132-133: the index a selector names, -1 when it names none
SelectorIndex(sel) ==
    IF /\ ~sel.null
       /\ strlen(sel.s) = 4
       /\ (strncmp(sel.s, Str_usb, 3) = 0 \/ strncmp(sel.s, Str_dpf, 3) = 0)
    THEN sel.s[4] - Ch0[1]
    ELSE -1

\* line 135 with the upper limit off by one
IndexRejected_OffByOne(n) == n < 0 \/ n > 10

\* line 135
IndexRejected(n) == n < 0 \/ n > 9

\* A failing return of dpf_ax_open, and main's exit on it (lines 553-556)
OpenFail(kind) ==
    /\ openErr' = kind
    /\ pc' = "exit"

\* lines 132-138
OpenValidate ==
    /\ pc = "main"
    /\ index' = SelectorIndex(dev)
    /\ IF IndexRejected(index')
       THEN OpenFail("InvalidArgument")
       ELSE pc' = "open_init" /\ UNCHANGED openErr
    /\ UNCHANGED <<dev, devs, i, enumeration, d, usbInit, devList, udev, claimed,
                   ctxMem, ctx, buf>>
    /\ UNCHANGED <<scsiVars, dpfVars, updVars, obsVars>>
    /\ UNCHANGED devVars
    /\ UNCHANGED nSetPixel

\* lines 140-144
OpenInit ==
    /\ pc = "open_init"
    /\ \E r \in {0} \cup UsbErrors :
          IF r < 0
          THEN OpenFail("InitFailed") /\ UNCHANGED usbInit
          ELSE pc' = "open_list" /\ usbInit' = TRUE /\ UNCHANGED openErr
    /\ UNCHANGED <<dev, index, devs, i, enumeration, d, devList, udev, claimed,
                   ctxMem, ctx, buf>>
    /\ UNCHANGED <<scsiVars, dpfVars, updVars, obsVars>>
    /\ UNCHANGED devVars
    /\ UNCHANGED nSetPixel

\* lines 146-151
OpenGetList ==
    /\ pc = "open_list"
    /\ \/ /\ usbInit' = FALSE     \* cnt < 0: libusb_exit
          /\ OpenFail("ListFailed")
          /\ UNCHANGED <<devs, devList>>
       \/ \E bus \in Buses :
             /\ devs' = bus
             /\ devList' = "held"
             /\ pc' = "open_scan"
             /\ UNCHANGED <<usbInit, openErr>>
    /\ i' = 0 /\ enumeration' = 0 /\ d' = 0
    /\ UNCHANGED <<dev, index, udev, claimed, ctxMem, ctx, buf>>
    /\ UNCHANGED <<scsiVars, dpfVars, updVars, obsVars>>
    /\ UNCHANGED devVars
    /\ UNCHANGED nSetPixel

\* line 160 testing the vendor only
IsAx206_VendorOnly(desc) == desc.idVendor = AX206_VID

\* line 160
IsAx206(desc) == desc.idVendor = AX206_VID /\ desc.idProduct = AX206_PID

\* lines 153-174: one pass of the loop; devs[i] is 1-based here, d = 0 is NULL
OpenScan ==
    /\ pc = "open_scan"
    /\ IF i < Len(devs)
       THEN \/ /\ OpenFail("DescriptorFailed")      \* r < 0, lines 155-158
               /\ UNCHANGED <<i, enumeration, d>>
            \/ /\ IF IsAx206(devs[i + 1])
                  THEN IF enumeration = index
                       THEN d' = i + 1 /\ pc' = "open_malloc"
                            /\ UNCHANGED <<i, enumeration>>
                       ELSE enumeration' = enumeration + 1 /\ i' = i + 1
                            /\ UNCHANGED <<d, pc>>
                  ELSE i' = i + 1 /\ UNCHANGED <<d, enumeration, pc>>
               /\ UNCHANGED openErr
       ELSE /\ OpenFail("DeviceNotFound")           \* !d, lines 171-174
            /\ UNCHANGED <<i, enumeration, d>>
    /\ UNCHANGED <<dev, index, devs, usbInit, devList, udev, claimed, ctxMem, ctx, buf>>
    /\ UNCHANGED <<scsiVars, dpfVars, updVars, obsVars>>
    /\ UNCHANGED devVars
    /\ UNCHANGED nSetPixel

\* lines 176-180
OpenMalloc ==
    /\ pc = "open_malloc"
    /\ \/ OpenFail("AllocFailed") /\ UNCHANGED ctxMem
       \/ ctxMem' = "alloc" /\ pc' = "open_open" /\ UNCHANGED openErr
    /\ UNCHANGED <<dev, index, devs, i, enumeration, d, usbInit, devList, udev,
                   claimed, ctx, buf>>
    /\ UNCHANGED <<scsiVars, dpfVars, updVars, obsVars>>
    /\ UNCHANGED devVars
    /\ UNCHANGED nSetPixel

\* lines 182-187
OpenDevice ==
    /\ pc = "open_open"
    /\ \/ /\ ctxMem' = "freed"
          /\ OpenFail("OpenFailed")
          /\ UNCHANGED udev
       \/ udev' = "open" /\ pc' = "open_claim" /\ UNCHANGED <<ctxMem, openErr>>
    /\ UNCHANGED <<dev, index, devs, i, enumeration, d, usbInit, devList, claimed,
                   ctx, buf>>
    /\ UNCHANGED <<scsiVars, dpfVars, updVars, obsVars>>
    /\ UNCHANGED devVars
    /\ UNCHANGED nSetPixel

\* A call of wrap_scsi: the arguments, and the caller to return to
ScsiCall(caller, cmd, cmdlen, out, data, block_len) ==
    /\ call' = [caller |-> caller, cmd |-> cmd, cmdlen |-> cmdlen, out |-> out,
                data |-> data, block_len |-> block_len]
    /\ pc' = "scsi_cmd"
    /\ xfers' = <<>>
    /\ exitAt' = "none"
    /\ result' = 0
    /\ UNCHANGED <<g_buf, ansbuf, ret, transfered, retry, timeout>>

\* lines 189-196: the device list is freed, then the interface is claimed
OpenClaim ==
    /\ pc = "open_claim"
    /\ devList' = "freed"
    /\ \/ /\ udev' = "closed"
          /\ ctxMem' = "freed"
          /\ OpenFail("ClaimFailed")
          /\ UNCHANGED <<claimed, dev, index, devs, i, enumeration, d>>
       \/ /\ claimed' = TRUE
          /\ pc' = "open_params"
          \* the list is gone and the scan's locals are read no more
          /\ dev' = NullSel /\ index' = -1 /\ devs' = <<>> /\ i' = 0
          /\ enumeration' = 0 /\ d' = 0
          /\ UNCHANGED <<udev, ctxMem, openErr>>
    /\ UNCHANGED <<usbInit, ctx, buf>>
    /\ UNCHANGED <<scsiVars, dpfVars, updVars, obsVars>>
    /\ UNCHANGED devVars
    /\ UNCHANGED nSetPixel

\* lines 198-208: the get-LCD-parameters command
OpenParams ==
    /\ pc = "open_params"
    /\ ScsiCall("open", OpenCmd, CmdLen, DIR_IN, TRUE, ParamLen)
    /\ UNCHANGED <<openVars, dpfVars, updVars, obsVars>>
    /\ UNCHANGED devVars
    /\ UNCHANGED nSetPixel

\* lines 209-210
Le16(lo, hi) == lo + hi * 256

\* dpf_ax_close, lines 225-232
dpf_ax_close ==
    /\ claimed' = FALSE
    /\ udev' = "closed"
    /\ ctxMem' = "freed"

\* lines 208-217: back from wrap_scsi
OpenReturn ==
    /\ pc = "open_ret"
    /\ IF result = 0
       THEN /\ ctx' = [width |-> Le16(buf[1], buf[2]), height |-> Le16(buf[3], buf[4])]
            /\ openErr' = "ok"
            /\ pc' = "main_init"
            /\ UNCHANGED <<claimed, udev, ctxMem>>
       ELSE /\ dpf_ax_close
            /\ OpenFail("ParamsFailed")
            /\ UNCHANGED ctx
    /\ UNCHANGED <<dev, index, devs, i, enumeration, d, usbInit, devList, buf>>
    /\ UNCHANGED <<scsiVars, dpfVars, updVars, obsVars>>
    /\ UNCHANGED devVars
    /\ UNCHANGED nSetPixel

(***************************************************************************)
(* wrap_scsi                                                               *)
(***************************************************************************)
\* lines 347-353 storing only the two low bytes of block_len
Envelope_ShortLength(g, c) ==
    [k \in 1..GBufLen |->
        IF k = 15 THEN Byte(c.cmdlen)
        ELSE IF k >= 16 /\ k < 16 + c.cmdlen THEN c.cmd[k - 15]
        ELSE IF k >= 9 /\ k <= 10 THEN Byte(Shr(c.block_len, 8 * (k - 9)))
        ELSE g[k]]

\* lines 347-353: the envelope, rewritten in place
Envelope(g, c) ==
    [k \in 1..GBufLen |->
        IF k = 15 THEN Byte(c.cmdlen)
        ELSE IF k >= 16 /\ k < 16 + c.cmdlen THEN c.cmd[k - 15]
        ELSE IF k >= 9 /\ k <= 12 THEN Byte(Shr(c.block_len, 8 * (k - 9)))
        ELSE g[k]]

\* A return statement of wrap_scsi: the value goes to the caller, the
\* arguments and the locals cease to exist
ScsiReturn(value, site) ==
    /\ result' = value
    /\ exitAt' = site
    /\ pc' = IF call.caller = "open" THEN "open_ret" ELSE "blit_ret"
    /\ call' = NoCall
    /\ ret' = 0 /\ transfered' = 0 /\ retry' = 0 /\ timeout' = 0

Xfer(phase, ep, n, ok) == [phase |-> phase, ep |-> ep, n |-> n, ok |-> ok]

\* What one bulk transfer of n bytes may report: <<ret, transfered>>
BulkOutcomes(n) ==
    {<<0, n>>}
    \cup {<<0, m>> : m \in {0, n - 1} \cap (0..(n - 1))}
    \cup {<<e, 0>> : e \in UsbErrors}

\* lines 362, 369, 381
TransferFailed(r, t, n) == r # 0 \/ t # n

\* lines 347-357: the envelope and the command phase
ScsiCmd ==
    /\ pc = "scsi_cmd"
    /\ g_buf' = Envelope(g_buf, call)
    /\ \E r \in {0} \cup UsbErrors :
          /\ xfers' = Append(xfers, Xfer("cmd", ENDPT_OUT, GBufLen, r = 0))
          /\ IF r # 0
             THEN ScsiReturn(r, "cmd")
             ELSE /\ pc' = "scsi_data"
                  /\ ret' = r
                  /\ transfered' = GBufLen
                  /\ UNCHANGED <<call, retry, timeout, result, exitAt>>
    /\ UNCHANGED ansbuf
    /\ UNCHANGED <<openVars, dpfVars, updVars, obsVars>>
    /\ UNCHANGED devVars
    /\ UNCHANGED nSetPixel

\* The 5 bytes the device may answer to get-LCD-parameters
ParamReplies == {<<224, 1, 64, 1, 0>>, <<64, 1, 240, 0, 0>>}

\* A buffer after a transfer put the first t bytes of "bytes" into it
Received(old, bytes, t) == [k \in DOMAIN old |-> IF k <= t THEN bytes[k] ELSE old[k]]

\* lines 364, 371: what the data phase returns when the transfer failed
DataFailValue(r, t) == r

\* lines 359-377: the data phase, and the set-up of the status loop
ScsiData ==
    /\ pc = "scsi_data"
    /\ IF call.data
       THEN \E o \in BulkOutcomes(call.block_len) :
               /\ IF call.out = DIR_OUT
                  THEN /\ xfers' = Append(xfers, Xfer("data", ENDPT_OUT, call.block_len,
                                           ~TransferFailed(o[1], o[2], call.block_len)))
                       /\ UNCHANGED <<buf, panel>>
                  ELSE /\ xfers' = Append(xfers, Xfer("data", ENDPT_IN, call.block_len,
                                           ~TransferFailed(o[1], o[2], call.block_len)))
                       /\ \E bytes \in ParamReplies :
                             /\ buf' = Received(buf, bytes, o[2])
                             /\ panel' = [panel EXCEPT !.w = Le16(bytes[1], bytes[2]),
                                                       !.h = Le16(bytes[3], bytes[4])]
               /\ IF TransferFailed(o[1], o[2], call.block_len)
                  THEN ScsiReturn(DataFailValue(o[1], o[2]), "data")
                  ELSE /\ pc' = "scsi_status"
                       /\ ret' = o[1] /\ transfered' = o[2]
                       /\ retry' = 0 /\ timeout' = 0
                       /\ UNCHANGED <<call, result, exitAt>>
       ELSE /\ pc' = "scsi_status" /\ retry' = 0 /\ timeout' = 0
            /\ UNCHANGED <<call, ret, transfered, xfers, buf, result, exitAt, panel>>
    /\ UNCHANGED <<g_buf, ansbuf>>
    /\ UNCHANGED <<dev, index, devs, i, enumeration, d, usbInit, devList, udev, claimed,
                   ctxMem, ctx, openErr>>
    /\ UNCHANGED <<dpfVars, updVars, obsVars>>
    /\ UNCHANGED blitFailed
    /\ UNCHANGED nSetPixel

\* The 13 bytes the device may answer in the status phase
StatusSigs == {Str_USBS, <<85, 83, 66, 84>>, <<85, 83, 66, 0>>}
StatusCodes == {0, 255}
StatusReplies == {sig \o Zeros(8) \o <<rc>> : sig \in StatusSigs, rc \in StatusCodes}
ShortReads == {4, 12}

\* What one status read may report: <<ret, transfered, bytes>>
StatusOutcomes ==
    {<<0, AnsLen, b>> : b \in StatusReplies}
    \cup {<<0, t, b>> : t \in ShortReads, b \in {sr \in StatusReplies : sr[13] = 0}}
    \cup {<<e, 0, Zeros(AnsLen)>> : e \in UsbErrors}

\* line 387 with the limit off by one
Again_OneMore(to, tries) == to # 0 /\ tries <= MaxTries

\* line 387: the loop goes round again
Again(to, tries) == to # 0 /\ tries < MaxTries

\* lines 378-387: one pass of the do-while loop
ScsiStatus ==
    /\ pc = "scsi_status"
    /\ \E o \in StatusOutcomes :
          /\ ret' = o[1]
          /\ transfered' = o[2]
          /\ ansbuf' = Received(ansbuf, o[3], o[2])
          /\ timeout' = IF TransferFailed(o[1], o[2], AnsLen) THEN 1 ELSE 0
          /\ xfers' = Append(xfers, Xfer("status", ENDPT_IN, AnsLen,
                                         ~TransferFailed(o[1], o[2], AnsLen)))
    /\ retry' = retry + 1
    /\ pc' = IF Again(timeout', retry') THEN "scsi_status" ELSE "scsi_check"
    /\ UNCHANGED <<call, g_buf, result, exitAt>>
    /\ UNCHANGED <<openVars, dpfVars, updVars, obsVars>>
    /\ UNCHANGED devVars
    /\ UNCHANGED nSetPixel

\* line 388 comparing one byte too few
SignatureBad_Prefix3(ans) == strncmp(ans, Str_USBS, 3) # 0

\* line 388
SignatureBad(ans) == strncmp(ans, Str_USBS, 4) # 0

\* lines 388-393: the value wrap_scsi returns after the status loop
StatusValue(ans) == IF SignatureBad(ans) THEN -1 ELSE ans[13]
StatusSite(ans) == IF SignatureBad(ans) THEN "sig" ELSE "rc"

\* lines 388-393
ScsiCheck ==
    /\ pc = "scsi_check"
    /\ ScsiReturn(StatusValue(ansbuf), StatusSite(ansbuf))
    /\ UNCHANGED <<g_buf, ansbuf, xfers>>
    /\ UNCHANGED <<openVars, dpfVars, updVars, obsVars>>
    /\ UNCHANGED devVars
    /\ UNCHANGED nSetPixel

(***************************************************************************)
(* main: set-up of the dpf struct, the message loop                        *)
(***************************************************************************)
\* What the observation variables hold between update notifications
ObsReset ==
    /\ blits' = <<>> /\ flushRect' = NoRect /\ blitRet' = NoValue
    /\ called' = {} /\ changed' = {} /\ lastSet' = <<>>
    /\ result' = 0 /\ exitAt' = "none" /\ xfers' = <<>>

\* lines 561-576 with the dirty rectangle set to empty, as update leaves it
MainInit_EmptyRect ==
    /\ pc = "main_init"
    /\ pwidth' = PWidth
    /\ pheight' = PHeight
    /\ lcdBuf' = NoBytes
    /\ minx' = pwidth' - 1
    /\ maxx' = 0
    /\ miny' = pheight' - 1
    /\ maxy' = 0
    /\ DROWS' = pheight'
    /\ DCOLS' = pwidth'
    /\ \/ pc' = "idle" /\ UNCHANGED <<claimed, udev, ctxMem>>
       \/ dpf_ax_close /\ pc' = "exit"
    /\ UNCHANGED <<xferBuf, g_excmd>>
    /\ result' = 0 /\ exitAt' = "none" /\ xfers' = <<>>
    /\ UNCHANGED <<call, g_buf, ansbuf, ret, transfered, retry, timeout>>
    /\ UNCHANGED <<dev, index, devs, i, enumeration, d, usbInit, devList, ctx, openErr, buf>>
    /\ UNCHANGED <<updVars, obsVars>>
    /\ UNCHANGED devVars
    /\ UNCHANGED nSetPixel

\* lines 561-576, then rfbInitClient (lines 596-599)
MainInit ==
    /\ pc = "main_init"
    /\ pwidth' = PWidth
    /\ pheight' = PHeight
    /\ lcdBuf' = NoBytes
    /\ minx' = 0
    /\ maxx' = pwidth' - 1
    /\ miny' = 0
    /\ maxy' = pheight' - 1
    /\ DROWS' = pheight'
    /\ DCOLS' = pwidth'
    /\ \/ pc' = "idle" /\ UNCHANGED <<claimed, udev, ctxMem>>
       \/ dpf_ax_close /\ pc' = "exit"
    /\ UNCHANGED <<xferBuf, g_excmd>>
    /\ result' = 0 /\ exitAt' = "none" /\ xfers' = <<>>
    /\ UNCHANGED <<call, g_buf, ansbuf, ret, transfered, retry, timeout>>
    /\ UNCHANGED <<dev, index, devs, i, enumeration, d, usbInit, devList, ctx, openErr, buf>>
    /\ UNCHANGED <<updVars, obsVars>>
    /\ UNCHANGED devVars
    /\ UNCHANGED nSetPixel

\* lines 608-618: the message loop ends
MainExit ==
    /\ pc = "idle"
    /\ dpf_ax_close
    /\ pc' = "exit"
    /\ UNCHANGED <<dev, index, devs, i, enumeration, d, usbInit, devList, ctx, openErr, buf>>
    /\ UNCHANGED <<scsiVars, dpfVars, updVars, obsVars>>
    /\ UNCHANGED devVars
    /\ UNCHANGED nSetPixel

(***************************************************************************)
(* drv_set_pixel                                                           *)
(***************************************************************************)
\* The part of the dpf struct that drv_set_pixel reads and writes
Tracker == [lcdBuf |-> lcdBuf, minx |-> minx, maxx |-> maxx, miny |-> miny, maxy |-> maxy]

\* line 265
PixelOffset(px, py) == (py * pwidth + px) * DPF_BPP

\* lines 255-258: the reduced coordinates are on the panel
OnPanel(px, py) == ~(px < 0 \/ px >= pwidth \/ py < 0 \/ py >= pheight)

\* lines 266-270
PixelDiffers(t, px, py, pix) ==
    \/ At(t.lcdBuf, PixelOffset(px, py)) # RGB565_0(pix)
    \/ At(t.lcdBuf, PixelOffset(px, py) + 1) # RGB565_1(pix)

\* lines 267-268 with the two bytes stored in the other order
StorePixel_Swapped(b, off, pix) == Put(Put(b, off, RGB565_1(pix)), off + 1, RGB565_0(pix))

\* lines 267-268
StorePixel(b, off, pix) == Put(Put(b, off, RGB565_0(pix)), off + 1, RGB565_1(pix))

\* lines 272-281 with the second test of each pair chained by "else"
Grow_ElseIf(t, px, py) ==
    [t EXCEPT !.minx = IF px < @ THEN px ELSE @,
              !.maxx = IF px < t.minx THEN @ ELSE IF px > @ THEN px ELSE @,
              !.miny = IF py < @ THEN py ELSE @,
              !.maxy = IF py < t.miny THEN @ ELSE IF py > @ THEN py ELSE @]

\* lines 272-281 with the upper bounds kept exclusive
Grow_Exclusive(t, px, py) ==
    [t EXCEPT !.minx = IF px < @ THEN px ELSE @,
              !.maxx = IF px > @ THEN px + 1 ELSE @,
              !.miny = IF py < @ THEN py ELSE @,
              !.maxy = IF py > @ THEN py + 1 ELSE @]

\* lines 272-281
Grow(t, px, py) ==
    [t EXCEPT !.minx = IF px < @ THEN px ELSE @,
              !.maxx = IF px > @ THEN px ELSE @,
              !.miny = IF py < @ THEN py ELSE @,
              !.maxy = IF py > @ THEN py ELSE @]

\* lines 249-282: the tracker after drv_set_pixel(x, y, pix) on tracker t
drv_set_pixel(t, x, y, pix) ==
    LET px == CMod(x, DCOLS)
        py == CMod(y, DROWS)
    IN  IF ~OnPanel(px, py) THEN t
        ELSE IF PixelDiffers(t, px, py, pix)
             THEN Grow([t EXCEPT !.lcdBuf = StorePixel(@, PixelOffset(px, py), pix)], px, py)
             ELSE t

(***************************************************************************)
(* update: the GotFrameBufferUpdate callback                               *)
(***************************************************************************)
\* A frame buffer holding black but for the given pixels <<x, y, R, G, B>>,
\* laid out as update reads it (lines 456-458)
RECURSIVE FrameOf(_)
FrameOf(pixels) ==
    IF pixels = <<>> THEN NoBytes
    ELSE LET p == Head(pixels)
             off == (p[2] * PWidth + p[1]) * 4
         IN  Put(Put(Put(FrameOf(Tail(pixels)), off, p[3]), off + 1, p[4]), off + 2, p[5])

Red == <<255, 0, 0>>
Green == <<0, 255, 0>>
Px(x, y, c) == <<x, y, c[1], c[2], c[3]>>

\* The notifications the server may send: the region <<x, y, w, h>> and the
\* frame buffer content at that time
UpdateInputs ==
    { [region |-> <<10, 10, 11, 11>>, frame |-> FrameOf(<<Px(10, 10, Red), Px(20, 20, Green)>>)],
      [region |-> <<10, 10, 2, 1>>,   frame |-> FrameOf(<<Px(10, 10, Red)>>)],
      [region |-> <<10, 10, 2, 1>>,   frame |-> NoBytes],
      [region |-> <<20, 20, 1, 1>>,   frame |-> FrameOf(<<Px(20, 20, <<7, 3, 7>>)>>)],
      [region |-> <<478, 319, 3, 1>>, frame |-> FrameOf(<<Px(478, 319, <<8, 4, 8>>),
                                                           Px(0, 320, Green)>>)] }

\* The alpha byte of the local "pixel" is never assigned (lines 450, 456-458)
AlphaValues == {0, 255}

\* lines 448-454: a notification arrives
UpdateBegin ==
    /\ pc = "idle"
    /\ nUpdates < MaxUpdates
    /\ nUpdates' = nUpdates + 1
    /\ \E u \in UpdateInputs :
          /\ frameBuffer' = u.frame
          /\ ux' = u.region[1] /\ uy' = u.region[2]
          /\ uw' = u.region[3] /\ uh' = u.region[4]
          /\ lx' = ux' /\ ly' = uy'
          /\ pc' = IF uh' > 0 /\ uw' > 0 THEN "update_loop" ELSE "update_flush"
    /\ ObsReset
    /\ UNCHANGED rect
    /\ UNCHANGED <<call, g_buf, ansbuf, ret, transfered, retry, timeout>>
    /\ UNCHANGED <<openVars, dpfVars>>
    /\ UNCHANGED devVars
    /\ UNCHANGED nSetPixel

\* lines 456-458
FramePixel(fb, px, py, a) ==
    [R |-> At(fb, (py * pwidth + px) * 4),
     G |-> At(fb, (py * pwidth + px) * 4 + 1),
     B |-> At(fb, (py * pwidth + px) * 4 + 2),
     A |-> a]

\* lines 454-460: one pass of the inner loop
UpdatePixel ==
    /\ pc = "update_loop"
    /\ \E a \in AlphaValues :
          LET pix == FramePixel(frameBuffer, lx, ly, a)
              t == drv_set_pixel(Tracker, lx, ly, pix)
          IN  /\ lcdBuf' = t.lcdBuf
              /\ minx' = t.minx /\ maxx' = t.maxx /\ miny' = t.miny /\ maxy' = t.maxy
              /\ called' = called \cup {<<lx, ly>>}
              /\ changed' = IF t.lcdBuf # lcdBuf
                             THEN changed \cup {<<CMod(lx, DCOLS), CMod(ly, DROWS)>>}
                             ELSE changed
              /\ lastSet' = <<lx, ly, <<pix.R, pix.G, pix.B>>, Tracker>>
    /\ IF lx + 1 < ux + uw
       THEN lx' = lx + 1 /\ UNCHANGED <<ly, pc>>
       ELSE /\ lx' = ux
            /\ ly' = ly + 1
            /\ pc' = IF ly' < uy + uh THEN "update_loop" ELSE "update_flush"
    /\ UNCHANGED <<frameBuffer, ux, uy, uw, uh, rect>>
    /\ UNCHANGED <<xferBuf, pwidth, pheight, DCOLS, DROWS, g_excmd>>
    /\ UNCHANGED <<nUpdates, blits, flushRect, blitRet>>
    /\ UNCHANGED <<openVars, scsiVars>>
    /\ UNCHANGED devVars
    /\ UNCHANGED nSetPixel

\* lines 467-474 with each row copied from column 0 of lcdBuf, not from minx
CopyRows_FromRowStart(pd) ==
    LET stride == pwidth * DPF_BPP
        cpylength == (maxx - minx + 1) * DPF_BPP
        total == cpylength * (maxy - miny + 1)
        Src(k) == (miny + (k \div cpylength)) * stride + (k % cpylength)
        Dst(m) == ((m \div stride) - miny) * cpylength + (m % stride)
        copied == {m \in DOMAIN lcdBuf :
                      /\ (m \div stride) >= miny /\ (m \div stride) <= maxy
                      /\ (m % stride) < cpylength}
    IN  [k \in {j \in DOMAIN pd : j >= total} \cup {Dst(m) : m \in copied} |->
            IF k < total THEN lcdBuf[Src(k)] ELSE pd[k]]

\* lines 467-474: the row loop.  Row r of the rectangle is memcpy'ed from
\* lcdBuf + ((miny + r) * pwidth + minx) * DPF_BPP to pd + r * cpylength;
\* the bytes of pd beyond the rectangle's size keep what they held.
CopyRows(pd) ==
    LET stride == pwidth * DPF_BPP
        cpylength == (maxx - minx + 1) * DPF_BPP
        total == cpylength * (maxy - miny + 1)
        Src(k) == (miny + (k \div cpylength)) * stride + minx * DPF_BPP + (k % cpylength)
        Dst(m) == ((m \div stride) - miny) * cpylength + ((m % stride) - minx * DPF_BPP)
        copied == {m \in DOMAIN lcdBuf :
                      /\ (m \div stride) >= miny /\ (m \div stride) <= maxy
                      /\ (m % stride) >= minx * DPF_BPP
                      /\ (m % stride) < minx * DPF_BPP + cpylength}
    IN  [k \in {j \in DOMAIN pd : j >= total} \cup {Dst(m) : m \in copied} |->
            IF k < total THEN lcdBuf[Src(k)] ELSE pd[k]]

\* line 463 with the early return left out
NothingChanged_Never == FALSE

\* line 463
NothingChanged == minx > maxx \/ miny > maxy

\* lines 477-481 without the conversion to exclusive bounds
FlushRect_Inclusive == <<ToShort(minx), ToShort(miny), ToShort(maxx), ToShort(maxy)>>

\* lines 477-481
FlushRect == <<ToShort(minx), ToShort(miny), ToShort(maxx + 1), ToShort(maxy + 1)>>

\* lines 462-481: skip the transfer, or fill xferBuf and rect
UpdateFlush ==
    /\ pc = "update_flush"
    /\ flushRect' = <<minx, maxx, miny, maxy>>
    /\ IF NothingChanged
       THEN /\ pc' = "idle"
            /\ UNCHANGED <<xferBuf, rect>>
       ELSE /\ xferBuf' = CopyRows(xferBuf)
            /\ rect' = FlushRect
            /\ pc' = "blit"
    /\ UNCHANGED <<frameBuffer, ux, uy, uw, uh, lx, ly>>
    /\ UNCHANGED <<lcdBuf, pwidth, pheight, minx, maxx, miny, maxy, DCOLS, DROWS, g_excmd>>
    /\ UNCHANGED <<nUpdates, blits, blitRet, called, changed, lastSet>>
    /\ UNCHANGED <<openVars, scsiVars>>
    /\ UNCHANGED devVars
    /\ UNCHANGED nSetPixel

(***************************************************************************)
(* dpf_ax_screen_blit                                                      *)
(***************************************************************************)
\* lines 301-302
BlitLen(rc) == ((rc[3] - rc[1]) * (rc[4] - rc[2])) * 2

\* lines 305-314 without the "- 1" of lines 311-314
BlitCmd_Exclusive(c, rc) ==
    [k \in 1..CmdLen |->
        CASE k = 7  -> USBCMD_BLIT
          [] k = 8  -> Byte(rc[1])
          [] k = 9  -> HiByte(rc[1])
          [] k = 10 -> Byte(rc[2])
          [] k = 11 -> HiByte(rc[2])
          [] k = 12 -> Byte(rc[3])
          [] k = 13 -> HiByte(rc[3])
          [] k = 14 -> Byte(rc[4])
          [] k = 15 -> HiByte(rc[4])
          [] k = 16 -> 0
          [] OTHER  -> c[k]]

\* lines 305-314: g_excmd, rewritten in place
BlitCmd(c, rc) ==
    [k \in 1..CmdLen |->
        CASE k = 7  -> USBCMD_BLIT
          [] k = 8  -> Byte(rc[1])
          [] k = 9  -> HiByte(rc[1])
          [] k = 10 -> Byte(rc[2])
          [] k = 11 -> HiByte(rc[2])
          [] k = 12 -> Byte(rc[3] - 1)
          [] k = 13 -> HiByte(rc[3] - 1)
          [] k = 14 -> Byte(rc[4] - 1)
          [] k = 15 -> HiByte(rc[4] - 1)
          [] k = 16 -> 0
          [] OTHER  -> c[k]]

\* lines 299-316
Blit ==
    /\ pc = "blit"
    /\ g_excmd' = BlitCmd(g_excmd, rect)
    /\ ScsiCall("blit", g_excmd', CmdLen, DIR_OUT, TRUE, BlitLen(rect))
    /\ blits' = Append(blits, [rect |-> rect, len |-> BlitLen(rect)])
    /\ UNCHANGED <<lcdBuf, xferBuf, pwidth, pheight, minx, maxx, miny, maxy, DCOLS, DROWS>>
    /\ UNCHANGED <<nUpdates, flushRect, blitRet, called, changed, lastSet>>
    /\ UNCHANGED <<openVars, updVars>>
    /\ UNCHANGED devVars
    /\ UNCHANGED nSetPixel

\* What dpf_ax_screen_blit hands back to update: it is a void function, the
\* value wrap_scsi returned is dropped (lines 299, 316-317)
BlitValue(r) == NoValue

\* The rectangle <<x0, y0, x1, y1>>, bounds inclusive, of the blit command
\* that went out in the envelope (lines 307-314, 347-348)
SentRect == <<Le16(g_buf[23], g_buf[24]), Le16(g_buf[25], g_buf[26]),
              Le16(g_buf[27], g_buf[28]), Le16(g_buf[29], g_buf[30])>>

\* The panel p after the device has drawn the rows of "data" into the part
\* of the rectangle r that lies on it: row j of the rectangle is the bytes
\* j * cpylength .. of the data
Overwrite(p, r, data) ==
    LET stride == PWidth * DPF_BPP
        cpylength == (r[3] - r[1] + 1) * DPF_BPP
        total == cpylength * (r[4] - r[2] + 1)
        whole == r[1] = 0 /\ r[2] = 0 /\ r[3] >= p.w - 1 /\ r[4] >= p.h - 1
        OnIt(m) == (m \div stride) < p.h /\ (m % stride) < p.w * DPF_BPP
        InRect(m) == /\ (m \div stride) >= r[2] /\ (m \div stride) <= r[4]
                     /\ (m % stride) >= r[1] * DPF_BPP
                     /\ (m % stride) < r[1] * DPF_BPP + cpylength
        Src(k) == (r[2] + (k \div cpylength)) * stride + r[1] * DPF_BPP + (k % cpylength)
        Dst(m) == ((m \div stride) - r[2]) * cpylength + ((m % stride) - r[1] * DPF_BPP)
        sent == IF whole \/ p.drawn
                THEN {Src(k) : k \in {j \in DOMAIN data : j < total}}
                ELSE {Src(k) : k \in 0..(total - 1)}
    IN  [p EXCEPT !.drawn = whole \/ p.drawn,
                  !.px = [m \in {n \in DOMAIN p.px : ~InRect(n)}
                                \cup {n \in sent : OnIt(n)} |->
                             IF InRect(m) THEN At(data, Dst(m)) ELSE p.px[m]]]

\* The call that just returned moved the command and the data, and its last
\* status read brought the 13 bytes "USBS", ..., 0
BlitSucceeded ==
    /\ exitAt = "rc" /\ result = 0
    /\ xfers # <<>> /\ xfers[Len(xfers)].ok

\* The data phase of the call that just returned moved all its bytes
DataArrived == \E k \in DOMAIN xfers : xfers[k].phase = "data" /\ xfers[k].ok

\* What the blit did to the panel: a blit that succeeded has drawn its
\* rectangle; one that failed may have drawn it if the data arrived
Drawn ==
    IF BlitSucceeded
    THEN /\ panel' = Overwrite(panel, SentRect, xferBuf)
         /\ UNCHANGED blitFailed
    ELSE /\ blitFailed' = TRUE
         /\ \/ panel' = panel
            \/ DataArrived /\ panel' = Overwrite(panel, SentRect, xferBuf)

\* lines 316-317, 482: wrap_scsi returns into blit, blit returns into update
BlitReturn ==
    /\ pc = "blit_ret"
    /\ blitRet' = BlitValue(result)
    /\ pc' = "update_reset"
    /\ UNCHANGED <<nUpdates, blits, flushRect, called, changed, lastSet>>
    /\ UNCHANGED <<openVars, scsiVars, dpfVars, updVars>>
    /\ Drawn
    /\ UNCHANGED nSetPixel

\* lines 485-488 done only when the transfer succeeded
ResetRect_KeepOnFailure ==
    IF result # 0
    THEN UNCHANGED <<minx, maxx, miny, maxy>>
    ELSE /\ minx' = pwidth - 1
         /\ maxx' = 0
         /\ miny' = pheight - 1
         /\ maxy' = 0

\* lines 485-488
ResetRect ==
    /\ minx' = pwidth - 1
    /\ maxx' = 0
    /\ miny' = pheight - 1
    /\ maxy' = 0

\* lines 484-490
UpdateReset ==
    /\ pc = "update_reset"
    /\ ResetRect
    /\ pc' = "idle"
    /\ UNCHANGED <<lcdBuf, xferBuf, pwidth, pheight, DCOLS, DROWS, g_excmd>>
    /\ UNCHANGED <<openVars, scsiVars, updVars, obsVars>>
    /\ UNCHANGED devVars
    /\ UNCHANGED nSetPixel

(***************************************************************************)
(* drv_set_pixel called on its own, on any coordinates                     *)
(***************************************************************************)
\* The arguments of the call: coordinates below, on, and beyond the canvas
PixelXs == {-480, -1, 0, 481}
PixelYs == {-1, 0, 320}
PixelColours == {Red, <<0, 0, 0>>}

\* lines 249-282: one call of drv_set_pixel between two notifications
SetPixel ==
    /\ pc = "idle"
    /\ nSetPixel < MaxSetPixel
    /\ nSetPixel' = nSetPixel + 1
    /\ \E x \in PixelXs, y \in PixelYs, c \in PixelColours :
          LET pix == [R |-> c[1], G |-> c[2], B |-> c[3], A |-> 0]
              t == drv_set_pixel(Tracker, x, y, pix)
          IN  /\ lcdBuf' = t.lcdBuf
              /\ minx' = t.minx /\ maxx' = t.maxx /\ miny' = t.miny /\ maxy' = t.maxy
              /\ lastSet' = <<x, y, c, Tracker>>
    /\ UNCHANGED <<xferBuf, pwidth, pheight, DCOLS, DROWS, g_excmd>>
    /\ UNCHANGED <<nUpdates, blits, flushRect, blitRet, called, changed>>
    /\ UNCHANGED <<pc, openVars, scsiVars, updVars, devVars>>

\* The two states in which the client waits for messages with nothing sent
\* since: main has set up the dpf struct (lines 552-576), or the first
\* notification, of the region <<10, 10, 2, 1>> of a black frame, has ended
\* (lines 448-490).  The device reported 480 x 320 and no transfer failed.
InitPixel ==
    /\ pc = "idle"
    /\ dev = NullSel
    /\ index = -1 /\ devs = <<>> /\ i = 0 /\ enumeration = 0 /\ d = 0
    /\ usbInit = TRUE /\ devList = "freed" /\ udev = "open" /\ claimed = TRUE
    /\ ctxMem = "alloc" /\ ctx = [width |-> 480, height |-> 320] /\ openErr = "ok"
    /\ buf = <<224, 1, 64, 1, 0>>
    /\ call = NoCall
    /\ ansbuf = Str_USBS \o Zeros(9)
    /\ ret = 0 /\ transfered = 0 /\ retry = 0 /\ timeout = 0
    /\ result = 0
    /\ lcdBuf = NoBytes /\ xferBuf = NoBytes /\ pwidth = PWidth /\ pheight = PHeight
    /\ DCOLS = PWidth /\ DROWS = PHeight
    /\ frameBuffer = NoBytes
    /\ blitRet = NoValue /\ changed = {}
    /\ blitFailed = FALSE
    /\ nSetPixel = 0
    /\ \/ /\ nUpdates = 0
          /\ minx = 0 /\ maxx = PWidth - 1 /\ miny = 0 /\ maxy = PHeight - 1
          /\ g_excmd = ExCmdInit
          /\ g_buf = Envelope(GBufInit, [cmd |-> OpenCmd, cmdlen |-> CmdLen,
                                         block_len |-> ParamLen])
          /\ exitAt = "none" /\ xfers = <<>>
          /\ ux = 0 /\ uy = 0 /\ uw = 0 /\ uh = 0 /\ lx = 0 /\ ly = 0
          /\ rect = <<0, 0, 0, 0>>
          /\ blits = <<>> /\ flushRect = NoRect /\ called = {} /\ lastSet = <<>>
          /\ panel = [PanelInit EXCEPT !.w = 480, !.h = 320]
       \/ /\ nUpdates = 1
          /\ minx = PWidth - 1 /\ maxx = 0 /\ miny = PHeight - 1 /\ maxy = 0
          /\ g_excmd = BlitCmd(ExCmdInit, <<0, 0, PWidth, PHeight>>)
          /\ g_buf = Envelope(GBufInit, [cmd |-> g_excmd, cmdlen |-> CmdLen,
                                         block_len |-> BlitLen(<<0, 0, PWidth, PHeight>>)])
          /\ exitAt = "rc"
          /\ xfers = <<Xfer("cmd", ENDPT_OUT, GBufLen, TRUE),
                       Xfer("data", ENDPT_OUT, BlitLen(<<0, 0, PWidth, PHeight>>), TRUE),
                       Xfer("status", ENDPT_IN, AnsLen, TRUE)>>
          /\ ux = 10 /\ uy = 10 /\ uw = 2 /\ uh = 1 /\ lx = 10 /\ ly = 11
          /\ rect = <<0, 0, PWidth, PHeight>>
          /\ blits = <<[rect |-> rect, len |-> BlitLen(rect)]>>
          /\ flushRect = <<0, PWidth - 1, 0, PHeight - 1>>
          /\ called = {<<10, 10>>, <<11, 10>>}
          /\ lastSet = <<11, 10, <<0, 0, 0>>,
                         [lcdBuf |-> NoBytes, minx |-> 0, maxx |-> PWidth - 1,
                          miny |-> 0, maxy |-> PHeight - 1]>>
          /\ panel = [PanelInit EXCEPT !.w = 480, !.h = 320, !.drawn = TRUE]

NextPixel == SetPixel \/ MainExit

SpecPixel == InitPixel /\ [][NextPixel]_vars

(***************************************************************************)
(* The program                                                             *)
(***************************************************************************)
Next ==
    \/ OpenValidate \/ OpenInit \/ OpenGetList \/ OpenScan \/ OpenMalloc
    \/ OpenDevice \/ OpenClaim \/ OpenParams \/ OpenReturn
    \/ ScsiCmd \/ ScsiData \/ ScsiStatus \/ ScsiCheck
    \/ MainInit \/ MainExit
    \/ UpdateBegin \/ UpdatePixel \/ UpdateFlush \/ Blit \/ BlitReturn \/ UpdateReset

Spec == Init /\ [][Next]_vars

(***************************************************************************)
(* Properties                                                              *)
(***************************************************************************)
\* wrap_scsi has just returned to its caller
Returned == pc \in {"open_ret", "blit_ret"}

\* a status read of the call that just returned delivered all 13 bytes
FullStatusRead == \E k \in DOMAIN xfers : xfers[k].phase = "status" /\ xfers[k].ok

\* C1: wrap_scsi returns a peer return code, or decides on a bad signature,
\* only when a status read of this same call delivered the full 13 bytes;
\* after 5 short or failed status reads it aborts with a transfer error.
C1_StatusExhaustedAborts ==
    (Returned /\ exitAt \in {"sig", "rc"}) => FullStatusRead

\* C2: a data phase that transferred fewer bytes than asked, or reported an
\* error, makes wrap_scsi return a failure, never the success code 0.
C2_DataFailureIsFailure ==
    (Returned /\ exitAt = "data") => result # 0

\* C3: a full 13-byte status reply whose first 4 bytes are not "USBS" makes
\* wrap_scsi return -1 at the signature check, whatever byte 12 holds.
C3_BadSignatureIsProtocolError ==
    (/\ Returned
     /\ xfers # <<>>
     /\ xfers[Len(xfers)].phase = "status"
     /\ xfers[Len(xfers)].ok
     /\ SubSeq(ansbuf, 1, 4) # Str_USBS)
    => (exitAt = "sig" /\ result = -1)

C3_Witness ==
    /\ pc = "blit_ret"
    /\ xfers[Len(xfers)].phase = "status" /\ xfers[Len(xfers)].ok
    /\ SubSeq(ansbuf, 1, 4) = <<85, 83, 66, 84>>
    /\ ansbuf[13] = 0
    /\ exitAt = "sig" /\ result = -1

\* C4: the flush step of an update that finds the dirty rectangle empty ends
\* the update with no blit and no bulk transfer, and leaves the resident
\* buffer, the transfer buffer and the dirty rectangle as they were.
C4_EmptyFlushDoesNothing ==
    [][(pc = "update_flush" /\ minx > maxx)
        => (/\ pc' = "idle"
            /\ blits' = <<>> /\ xfers' = <<>>
            /\ UNCHANGED <<lcdBuf, xferBuf, minx, maxx, miny, maxy, g_buf, g_excmd,
                           ansbuf, rect>>)]_vars

C4_Witness ==
    /\ pc = "idle"
    /\ flushRect # NoRect /\ flushRect[1] > flushRect[2]
    /\ called # {}
    /\ xfers = <<>> /\ blits = <<>>

\* C5: when an update notification has ended, the dirty rectangle is empty
\* (minx > maxx), whatever the blit's transport did.
C5_EmptyAfterFlush ==
    (pc = "idle" /\ nUpdates > 0) => minx > maxx

C5_Witness ==
    /\ pc = "idle"
    /\ Len(blits) = 1
    /\ exitAt = "data" /\ result # 0
    /\ minx > maxx

\* the tight bounding box <<minX, maxX, minY, maxY>> of a set of coordinates
BoundingBox(S) ==
    <<CHOOSE a \in {c[1] : c \in S} : \A c \in S : a <= c[1],
      CHOOSE a \in {c[1] : c \in S} : \A c \in S : a >= c[1],
      CHOOSE a \in {c[2] : c \in S} : \A c \in S : a <= c[2],
      CHOOSE a \in {c[2] : c \in S} : \A c \in S : a >= c[2]>>

InBounds(c) == c[1] >= 0 /\ c[1] < pwidth /\ c[2] >= 0 /\ c[2] < pheight

\* a flush has happened, and drv_set_pixel was since called on distinct
\* coordinates of the panel only
WritesSinceFlush ==
    /\ nUpdates >= 2
    /\ pc \in {"update_loop", "update_flush"}
    /\ called # {}
    /\ \A c \in called : InBounds(c)

\* C6 as stated: the dirty rectangle is the bounding box of the coordinates
\* drv_set_pixel was called on since the last flush.
C6_RectIsBoxOfWrites ==
    WritesSinceFlush => <<minx, maxx, miny, maxy>> = BoundingBox(called)

\* C6: the dirty rectangle is the bounding box of those coordinates written
\* since the last flush whose stored packed value the write changed, and
\* empty when no write changed one.
C6_RectIsBoxOfChanges ==
    WritesSinceFlush =>
        IF changed = {}
        THEN minx > maxx
        ELSE <<minx, maxx, miny, maxy>> = BoundingBox(changed)

C6_Witness ==
    /\ WritesSinceFlush
    /\ pc = "update_flush"
    /\ changed = {<<10, 10>>, <<20, 20>>}
    /\ <<minx, maxx, miny, maxy>> = <<10, 20, 10, 20>>

\* the last drv_set_pixel call: its coordinates, its pixel, the tracker before
LastPixel == [R |-> lastSet[3][1], G |-> lastSet[3][2], B |-> lastSet[3][3], A |-> 0]
LastOffset == (lastSet[2] * pwidth + lastSet[1]) * DPF_BPP

\* C7: after drv_set_pixel(x, y, P) on the panel the two bytes of (x, y) hold
\* the packed P, every other byte of lcdBuf is what it was, and the same call
\* once more changes neither lcdBuf nor the dirty rectangle.
C7_SetPixelStoresAndIsIdempotent ==
    (/\ pc \in {"update_loop", "update_flush"}
     /\ lastSet # <<>>
     /\ InBounds(lastSet))
    => /\ At(lcdBuf, LastOffset) = ((LastPixel.R \div 8) * 8) + (LastPixel.G \div 32)
       /\ At(lcdBuf, LastOffset + 1) = (((LastPixel.G \div 4) % 8) * 32) + (LastPixel.B \div 8)
       /\ \A k \in ((DOMAIN lcdBuf) \cup (DOMAIN lastSet[4].lcdBuf)) \ {LastOffset, LastOffset + 1} :
             At(lcdBuf, k) = At(lastSet[4].lcdBuf, k)
       /\ drv_set_pixel(Tracker, lastSet[1], lastSet[2], LastPixel) = Tracker

C7_Witness ==
    /\ pc = "update_loop"
    /\ lastSet # <<>>
    /\ lastSet[1] = 10 /\ lastSet[2] = 10 /\ lastSet[3] = Red
    /\ lastSet[4].lcdBuf # lcdBuf
    /\ At(lcdBuf, LastOffset) = 248 /\ At(lcdBuf, LastOffset + 1) = 0

\* the dirty rectangle the flush step found was not empty
FlushedSomething == flushRect # NoRect /\ flushRect[1] <= flushRect[2]

\* C8: an update whose flush step finds a non-empty dirty rectangle calls
\* dpf_ax_screen_blit exactly once, with rect [minx, miny, maxx+1, maxy+1]
\* and (maxx-minx+1)*(maxy-miny+1)*2 payload bytes; after red at (10,10) and
\* green at (20,20) that is rect [10,10,21,21] and 242 bytes.
C8_OneBlitOfDirtyRect ==
    /\ (pc \in {"blit_ret", "update_reset", "idle"} /\ FlushedSomething)
       => /\ Len(blits) = 1
          /\ blits[1].rect = <<flushRect[1], flushRect[3], flushRect[2] + 1, flushRect[4] + 1>>
          /\ blits[1].len = (flushRect[2] - flushRect[1] + 1)
                            * (flushRect[4] - flushRect[3] + 1) * 2
          /\ \A k \in DOMAIN xfers : xfers[k].phase = "data" => xfers[k].n = blits[1].len
    /\ (pc = "idle" /\ flushRect = <<10, 20, 10, 20>>)
       => blits = <<[rect |-> <<10, 10, 21, 21>>, len |-> 242]>>

C8_Witness ==
    /\ pc = "idle"
    /\ changed = {<<10, 10>>, <<20, 20>>}
    /\ flushRect = <<10, 20, 10, 20>>
    /\ At(lcdBuf, (10 * pwidth + 10) * DPF_BPP) = 248
    /\ At(lcdBuf, (20 * pwidth + 20) * DPF_BPP) = 7
    /\ At(lcdBuf, (20 * pwidth + 20) * DPF_BPP + 1) = 224
    /\ blits = <<[rect |-> <<10, 10, 21, 21>>, len |-> 242]>>
    /\ exitAt = "rc" /\ result = 0

\* C9: what dpf_ax_screen_blit hands to update is the value wrap_scsi
\* returned, in particular every failure and every non-zero return code.
C9_BlitPropagatesResult ==
    (pc = "update_reset" /\ result # 0)
    => (blitRet.given /\ blitRet.value = result)

\* the selector form: "usb" or "dpf" and one digit
ValidSelector(sel) ==
    /\ ~sel.null
    /\ Len(sel.s) = 4
    /\ SubSeq(sel.s, 1, 3) \in {Str_usb, Str_dpf}
    /\ sel.s[4] \in 48..57

\* C10: dpf_ax_open rejects exactly the selectors that are not "usb" or "dpf"
\* plus one digit, and it rejects them before libusb is initialised or the
\* bus is enumerated.  (dev holds the selector until the device list is freed.)
C10_SelectorValidation ==
    (pc # "main" /\ devList # "freed")
    => /\ (openErr = "InvalidArgument") <=> ~ValidSelector(dev)
       /\ (openErr = "InvalidArgument")
          => (pc = "exit" /\ ~usbInit /\ devList = "none" /\ udev = "none"
              /\ ctxMem = "none" /\ xfers = <<>>)

C10_Witness ==
    /\ pc = "exit"
    /\ dev = Sel(Str_usb \o <<58>>)
    /\ openErr = "InvalidArgument"
    /\ ~usbInit /\ devList = "none"

\* a descriptor with vendor 0x1908 and product 0x0102
Matching(desc) == desc.idVendor = 6408 /\ desc.idProduct = 258

\* the positions of the matching devices among the first k of a bus
MatchesUpTo(bus, k) == {j \in 1..k : Matching(bus[j])}

\* dpf_ax_open has scanned the bus and has returned or chosen its device;
\* devs and index are those of the scan while the list is held
ScanSettled ==
    /\ devList = "held"
    /\ pc \in {"exit", "open_malloc", "open_open", "open_claim"}

\* the device chosen is the (index+1)-th matching one of the list
ChoseNthMatch ==
    /\ d \in 1..Len(devs)
    /\ Matching(devs[d])
    /\ Cardinality(MatchesUpTo(devs, d)) = index + 1

\* C11 as stated: dpf_ax_open fails with "device not found" exactly when
\* fewer than index+1 devices of the list match, and otherwise the device it
\* goes on to open is the (index+1)-th matching one.
C11_NotFoundIffTooFew ==
    ScanSettled =>
        /\ (openErr = "DeviceNotFound")
              <=> (Cardinality(MatchesUpTo(devs, Len(devs))) < index + 1)
        /\ (pc # "exit") => ChoseNthMatch

\* C11: the same, for the scans in which no descriptor read failed; a failed
\* descriptor read ends dpf_ax_open with its own error whatever the bus holds.
C11_NotFoundIffTooFewRead ==
    (ScanSettled /\ openErr # "DescriptorFailed") =>
        /\ (openErr = "DeviceNotFound")
              <=> (Cardinality(MatchesUpTo(devs, Len(devs))) < index + 1)
        /\ (pc # "exit") => ChoseNthMatch

C11_Witness ==
    /\ pc = "open_open"
    /\ devList = "held"
    /\ index = 1
    /\ Len(devs) = 3 /\ Matching(devs[1]) /\ ~Matching(devs[2]) /\ Matching(devs[3])
    /\ d = 3

\* dpf_ax_open has returned NULL
OpenFailed == pc = "exit" /\ openErr \notin {"none", "ok"}

\* C12: when dpf_ax_open returns NULL it holds none of the device list, the
\* device handle, the claimed interface and the context memory.
C12_FailureReleasesAll ==
    OpenFailed =>
        /\ devList # "held"
        /\ udev # "open"
        /\ ~claimed
        /\ ctxMem # "alloc"

\* the positions of the transfers of one phase in the current call
InPhase(ph) == {k \in DOMAIN xfers : xfers[k].phase = ph}

\* C13: the bulk transfers of one wrap_scsi call are one 31-byte envelope
\* write on OUT, then at most one data transfer, then 1 to 5 status reads of 13
\* bytes on IN of which only the last can be complete; a failed command or
\* data phase is the last transfer of the call.
C13_TransferOrder ==
    xfers # <<>> =>
        /\ InPhase("cmd") = {1}
        /\ xfers[1].ep = 1 /\ xfers[1].n = 31
        /\ InPhase("data") \subseteq {2}
        /\ \A k \in DOMAIN xfers : ~xfers[k].ok /\ xfers[k].phase # "status" => k = Len(xfers)
        /\ Cardinality(InPhase("status")) <= 5
        /\ \A k \in InPhase("status") :
              /\ xfers[k].ep = 129 /\ xfers[k].n = 13
              /\ xfers[k].ok => k = Len(xfers)
        /\ (Returned /\ exitAt \in {"sig", "rc"})
              => /\ InPhase("status") # {}
                 /\ xfers[Len(xfers)].ok \/ Cardinality(InPhase("status")) = 5

C13_Witness ==
    /\ pc = "blit_ret"
    /\ Len(xfers) = 7
    /\ InPhase("data") = {2}
    /\ InPhase("status") = 3..7
    /\ \A k \in 3..6 : ~xfers[k].ok
    /\ xfers[7].ok

\* main has set up the dpf struct (lines 561-576)
StartedUp == pwidth # 0

\* the bytes the row loop of update copies into xferBuf (lines 467-474)
CopiedBytes == (maxx - minx + 1) * DPF_BPP * (maxy - miny + 1)

\* C14: from main's set-up on, a non-empty dirty rectangle lies on the panel,
\* 0 <= minx <= maxx < pwidth and 0 <= miny <= maxy < pheight, so what update
\* copies into xferBuf never exceeds pwidth * pheight * 2 bytes.
C14_DirtyRectOnPanel ==
    (StartedUp /\ ~NothingChanged) =>
        /\ 0 <= minx /\ minx <= maxx /\ maxx < pwidth
        /\ 0 <= miny /\ miny <= maxy /\ maxy < pheight
        /\ CopiedBytes <= pwidth * pheight * DPF_BPP
        /\ \A k \in DOMAIN xferBuf : k < pwidth * pheight * DPF_BPP

C14_Witness ==
    /\ pc = "blit"
    /\ nUpdates = 2
    /\ minx = 0 /\ maxx = 478 /\ miny = 319 /\ maxy = 319
    /\ DOMAIN xferBuf # {}

\* the 31 bytes g carry the call c as the device expects them
CarriesCall(g, c) ==
    /\ <<g[1], g[2], g[3], g[4]>> = <<85, 83, 66, 67>>
    /\ <<g[5], g[6], g[7], g[8]>> = <<222, 173, 190, 239>>
    /\ g[9] + 256 * g[10] + 65536 * g[11] + 16777216 * g[12] = c.block_len
    /\ g[14] = 0
    /\ g[15] = c.cmdlen
    /\ \A k \in 1..c.cmdlen : g[15 + k] = c.cmd[k]

\* C15: whatever earlier calls left in g_buf, the 31 bytes the command phase
\* of a call sends hold the signature, the tag, this call's block_len in four
\* little-endian bytes, LUN 0, this call's cmdlen and this call's cmd bytes.
C15_EnvelopeOfThisCall ==
    [][pc = "scsi_cmd" => /\ Len(g_buf') = 31
                          /\ CarriesCall(g_buf', call)]_vars

C15_Witness ==
    /\ pc = "scsi_data"
    /\ nUpdates = 2
    /\ call.caller = "blit"
    /\ call.block_len = 242
    /\ CarriesCall(g_buf, call)

\* the command phase of a blit has gone out and its data phase is next
BlitCommandSent == pc = "scsi_data" /\ call.caller = "blit"

\* byte k (counted from 0, as in the code) of the command inside the envelope
SentCmd(k) == g_buf[16 + k]

\* C16: the blit command the device receives carries the tracker's inclusive
\* bounds, x0 = minx, y0 = miny, x1-1 = maxx, y1-1 = maxy, each as two
\* little-endian bytes, then a zero byte; the data phase is OUT and
\* (maxx - minx + 1) * (maxy - miny + 1) * 2 bytes long.
C16_BlitCarriesInclusiveBounds ==
    BlitCommandSent =>
        /\ SentCmd(6) = 18
        /\ SentCmd(7) + 256 * SentCmd(8) = minx
        /\ SentCmd(9) + 256 * SentCmd(10) = miny
        /\ SentCmd(11) + 256 * SentCmd(12) = maxx
        /\ SentCmd(13) + 256 * SentCmd(14) = maxy
        /\ SentCmd(15) = 0
        /\ call.out = 1
        /\ call.data
        /\ call.block_len = (maxx - minx + 1) * (maxy - miny + 1) * 2
        /\ call.block_len = (rect[3] - rect[1]) * (rect[4] - rect[2]) * 2

C16_Witness ==
    /\ BlitCommandSent
    /\ <<minx, miny, maxx, maxy>> = <<0, 319, 478, 319>>
    /\ <<SentCmd(11), SentCmd(12)>> = <<222, 1>>
    /\ <<SentCmd(13), SentCmd(14)>> = <<63, 1>>
    /\ call.block_len = 958

\* an update notification has run to its end, or has its blit behind it
BlitBehind == pc \in {"blit_ret", "update_reset", "idle", "exit"}

\* the one blit of the rectangle <<minX, maxX, minY, maxY>>
BlitOf(b) == <<[rect |-> <<b[1], b[3], b[2] + 1, b[4] + 1>>,
               len |-> (b[2] - b[1] + 1) * (b[4] - b[3] + 1) * 2]>>

\* C18: the first update notification after start-up issues exactly one blit,
\* of the rectangle [0, 0, pwidth, pheight] with pwidth * pheight * 2 bytes,
\* whatever region it reports and whether or not a packed value changed; from
\* the second notification on an update blits the bounding box of the changed
\* pixels, and nothing when none changed.
C18_FirstUpdateBlitsWholePanel ==
    /\ (nUpdates = 1 /\ BlitBehind)
       => blits = <<[rect |-> <<0, 0, pwidth, pheight>>, len |-> pwidth * pheight * 2]>>
    /\ (nUpdates >= 2 /\ BlitBehind)
       => blits = IF changed = {} THEN <<>> ELSE BlitOf(BoundingBox(changed))

C18_Witness ==
    /\ nUpdates = 1
    /\ pc = "idle"
    /\ <<ux, uy, uw, uh>> = <<10, 10, 2, 1>>
    /\ called = {<<10, 10>>, <<11, 10>>}
    /\ changed = {}
    /\ blits = <<[rect |-> <<0, 0, 480, 320>>, len |-> 307200]>>

\* C20: every rectangle handed to dpf_ax_screen_blit lies inside the width
\* and height the device reported at open and dpf_ax_open stored on the
\* handle, and the tracker's dimensions are those.  (Stated for a handle that
\* holds a reply: a get-parameters data phase that moved no byte leaves 0 x 0.)
C20_BlitInsideReportedPanel ==
    (pc = "scsi_cmd" /\ call.caller = "blit" /\ ctx.width > 0 /\ ctx.height > 0)
    => /\ 0 <= rect[1] /\ rect[1] < rect[3] /\ rect[3] <= ctx.width
       /\ 0 <= rect[2] /\ rect[2] < rect[4] /\ rect[4] <= ctx.height
       /\ pwidth = ctx.width /\ pheight = ctx.height

\* the byte the panel shows at offset m, for a panel that was drawn entirely
PanelAt(m) == IF m \in DOMAIN panel.px THEN panel.px[m] ELSE 0

\* offset m of lcdBuf belongs to a pixel the panel has
OnThePanel(m) ==
    /\ (m \div (pwidth * DPF_BPP)) < panel.h
    /\ (m % (pwidth * DPF_BPP)) < panel.w * DPF_BPP

\* every pixel of the panel shows what lcdBuf holds for it
PanelShowsBuffer ==
    /\ panel.drawn
    /\ \A m \in DOMAIN panel.px : OnThePanel(m)
    /\ \A m \in (DOMAIN panel.px) \cup (DOMAIN lcdBuf) :
          OnThePanel(m) => PanelAt(m) = At(lcdBuf, m)

\* C19: with the panel a pixel grid that a successful blit overwrites inside
\* its rectangle, the panel shows lcdBuf at every pixel whenever an update
\* notification has ended, from the first one on, as long as no blit failed.
C19_PanelFollowsBuffer ==
    (pc = "idle" /\ nUpdates >= 1 /\ ~blitFailed) => PanelShowsBuffer

C19_Witness ==
    /\ pc = "idle"
    /\ nUpdates = 2
    /\ ~blitFailed
    /\ blits = <<[rect |-> <<10, 10, 21, 21>>, len |-> 242]>>
    /\ At(lcdBuf, (20 * pwidth + 20) * DPF_BPP) = 7
    /\ PanelAt((20 * pwidth + 20) * DPF_BPP) = 7
    /\ PanelAt((20 * pwidth + 20) * DPF_BPP + 1) = 224
    /\ PanelShowsBuffer

\* a step that is one call of drv_set_pixel from outside update; its
\* arguments are lastSet'[1], lastSet'[2] and the colour lastSet'[3]
SetPixelStep == nSetPixel' # nSetPixel

\* the coordinate v lands outside the canvas of size n after the reduction:
\* it is negative and no multiple of n
ReducedOutside(v, n) == v < 0 /\ (-v) % n # 0

\* the call left the buffers, the dirty rectangle and the transport alone
PixelNoOp ==
    /\ UNCHANGED <<lcdBuf, minx, maxx, miny, maxy>>
    /\ UNCHANGED <<xferBuf, xfers, blits, g_buf, pc>>

\* the call stored the packed colour c at the pixel (wx, wy) and nothing else
PixelWrittenAt(wx, wy, c) ==
    LET off == (wy * PWidth + wx) * 2
    IN  /\ At(lcdBuf', off) = ((c[1] \div 8) * 8) + (c[2] \div 32)
        /\ At(lcdBuf', off + 1) = (((c[2] \div 4) % 8) * 32) + (c[3] \div 8)
        /\ \A k \in ((DOMAIN lcdBuf) \cup (DOMAIN lcdBuf')) \ {off, off + 1} :
              At(lcdBuf', k) = At(lcdBuf, k)
        /\ (lcdBuf' # lcdBuf)
              => /\ minx' <= wx /\ wx <= maxx' /\ miny' <= wy /\ wy <= maxy'
                 /\ minx' <= minx /\ maxx' >= maxx /\ miny' <= miny /\ maxy' >= maxy
        /\ (lcdBuf' = lcdBuf) => UNCHANGED <<minx, maxx, miny, maxy>>
        /\ UNCHANGED <<xferBuf, xfers, blits, g_buf, pc>>

\* C17 as stated: drv_set_pixel with a negative x or y is a no-op.
C17_NegativeIsNoOp ==
    [][(SetPixelStep /\ (lastSet'[1] < 0 \/ lastSet'[2] < 0)) => PixelNoOp]_vars

\* C17: drv_set_pixel with a negative x or y that is no multiple of the
\* canvas width or height is a no-op on lcdBuf, the dirty rectangle and the
\* transport; any other coordinates, those at or beyond the canvas size and
\* the negative multiples of it included, are written at
\* (x mod DCOLS, y mod DROWS).
C17_ReducedOutsideIsNoOp ==
    [][SetPixelStep =>
          IF ReducedOutside(lastSet'[1], DCOLS) \/ ReducedOutside(lastSet'[2], DROWS)
          THEN PixelNoOp
          ELSE PixelWrittenAt(lastSet'[1] % 480, lastSet'[2] % 320, lastSet'[3])]_vars

C17_Witness ==
    /\ nSetPixel = 2
    /\ lastSet[1] = -1 /\ lastSet[2] = 320 /\ lastSet[3] = Red
    /\ lastSet[4] = Tracker
    /\ At(lcdBuf, (0 * PWidth + 1) * DPF_BPP) = 248
    /\ <<minx, maxx, miny, maxy>> = <<1, 1, 0, 0>>

=============================================================================
